---- MODULE Spec2Model ----
(***************************************************************************)
(* Model of hdf2tif.py: the conversion of a multi-band HDF file into one   *)
(* TIFF through per-band VRT files kept in a working directory.            *)
(*                                                                         *)
(* File names are sequences of tokens (<<"g", ".hdf">> is g.hdf), so that  *)
(* str.replace and os.path.splitext act on them as they do on the text.    *)
(* The file system is three maps: files (regular files beside the input),  *)
(* dirs (directories, each a map from VRT file name to VRT document) and   *)
(* directoryTifs (the .tif files in the program's own directory).          *)
(* Library calls (gdal.Open, gdal.BuildVRT, gdal.Warp) are steps of their  *)
(* own; gdal is used without UseExceptions, so a failed BuildVRT or Warp   *)
(* returns None and the script goes on to the next statement.              *)
(***************************************************************************)
EXTENDS Integers, Sequences, FiniteSets, TLC

\* Number of subdatasets the HDF file holds.
NumSub == 2
\* Longest explicit band list given on the command line.
MaxBands == 2
\* Number of invocations of hdf2tif in one behaviour.
MaxRuns == 2

\* The invocations that may be in progress.
Procs == {"A", "B"}

VARIABLES
    hdf_file,       \* the path given on the command line
    unscaled,       \* subdatasets of the HDF whose metadata has no scale key
                    \* (none, or the last one: a quality band)
    files,          \* path -> file, the regular files beside the input
    dirs,           \* path -> (VRT file name -> VRT document)
    directoryTifs,  \* the .tif files in DIRECTORY, the program's own directory
    pc,             \* each invocation's position in hdf2tif
    loc,            \* each invocation's arguments and local variables
    runs            \* invocations started so far

vars == <<hdf_file, unscaled, files, dirs, directoryTifs, pc, loc, runs>>

----------------------------------------------------------------------------
(* Maps *)

Put(f, k, v) == [x \in DOMAIN f \cup {k} |-> IF x = k THEN v ELSE f[x]]
Del(f, k) == [x \in DOMAIN f \ {k} |-> f[x]]

----------------------------------------------------------------------------
(* Paths *)

HdfNames == {<<"g", ".hdf">>, <<"g", ".HDF">>}
Extensions == {".hdf", ".HDF", ".vrt", ".tif"}

\* str.replace(old, new): every occurrence is replaced, none if absent.
Replace(s, old, new) == [i \in DOMAIN s |-> IF s[i] = old THEN new ELSE s[i]]

\* os.path.splitext(p)[0]
splitext(s) ==
    IF Len(s) > 1 /\ s[Len(s)] \in Extensions THEN SubSeq(s, 1, Len(s) - 1) ELSE s

\* hdf.replace('.hdf', '.vrt')
VrtOutput(hdf) == Replace(hdf, ".hdf", ".vrt")
\* vrt_output.replace(".vrt", ".tif")
OutputTiff(vrt_output) == Replace(vrt_output, ".vrt", ".tif")

\* os.path.exists
Exists(p) == p \in DOMAIN files \/ p \in DOMAIN dirs

----------------------------------------------------------------------------
(* The HDF container as the library reports it *)

FieldNames == <<"sur_refl_b01", "sur_refl_b02", "sur_refl_b03", "sur_refl_b04", "sur_refl_b05">>
DataTypes == <<"Int16", "Byte", "UInt16", "Int32", "Float64">>
Scales == <<"0.0001", "0.01", "0.1", "0.001", "0.5">>

\* The connection string of subdataset i: HDF4_EOS:EOS_GRID:"<file>":MOD_Grid:<field>
ConnStr(hdf, i) ==
    <<"HDF4_EOS", ":", "EOS_GRID", ":">> \o hdf \o <<":", "MOD_Grid", ":", FieldNames[i]>>

\* dataset.GetSubDatasets(): (name, description) pairs in the library's order.
GetSubDatasets(hdf) == [i \in 1..NumSub |-> <<ConnStr(hdf, i), "description">>]

RECURSIVE Split(_)
\* s.split(":"): the pieces between the colons, in order
Split(s) ==
    IF \A i \in DOMAIN s : s[i] # ":" THEN <<s>>
    ELSE LET c == CHOOSE i \in DOMAIN s :
                      s[i] = ":" /\ \A j \in 1..(i - 1) : s[j] # ":"
         IN  <<SubSeq(s, 1, c - 1)>> \o Split(SubSeq(s, c + 1, Len(s)))

\* The subdataset a connection string opens.
SubIndex(conn) == CHOOSE i \in 1..Len(FieldNames) : FieldNames[i] = conn[Len(conn)]

\* k.lower()
Lower(k) == IF k = "Scale_Factor" THEN "scale_factor" ELSE k
\* 'scale' in k
ContainsScale(k) == k \in {"scale_factor", "scale_factor_err"}

\* dataset.GetMetadata_Dict() of subdataset i
GetMetadata_Dict(i, noscale) ==
    LET base == [k \in {"add_offset", "_FillValue"} |->
                    IF k = "add_offset" THEN "0" ELSE "-28672"]
    IN  IF i \in noscale THEN base
        ELSE IF i % 2 = 0
             THEN Put(Put(base, "Scale_Factor", Scales[i]), "scale_factor_err", "0.0")
             ELSE Put(base, "Scale_Factor", Scales[i])

\* The values get_metadata_item may return: the dictionary filtered by the
\* keyword, of which the first key in the dictionary's own order is taken.
get_metadata_item(i, noscale) ==
    LET metadata == GetMetadata_Dict(i, noscale)
        filtered == {k \in DOMAIN metadata : ContainsScale(Lower(k))}
    IN  {metadata[k] : k \in filtered}

----------------------------------------------------------------------------
(* VRT file names and their order *)

RECURSIVE Digits(_)
\* str(n) as its decimal digits
Digits(n) == IF n < 10 THEN <<n>> ELSE Digits(n \div 10) \o <<n % 10>>

RECURSIVE ParseInt(_)
\* int(str(b)) of a command-line argument given as its digits
ParseInt(ds) ==
    IF Len(ds) = 0 THEN 0
    ELSE 10 * ParseInt(SubSeq(ds, 1, Len(ds) - 1)) + ds[Len(ds)]

RECURSIVE zfillDigits(_, _)
zfillDigits(ds, w) == IF Len(ds) >= w THEN ds ELSE zfillDigits(<<0>> \o ds, w)

\* str(n).zfill(2), as character codes
zfill(n) == LET ds == zfillDigits(Digits(n), 2) IN [i \in DOMAIN ds |-> 48 + ds[i]]

\* "Band" and "_" as character codes
BandText == <<66, 97, 110, 100>>
Underscore == <<95>>

\* "{}_Band{}_{}.vrt".format(order, band, name.split(":")[-1])
BandVrtName(order, band, name) ==
    [pre  |-> zfill(order) \o Underscore \o BandText \o zfill(band) \o Underscore,
     tail |-> Split(name)[Len(Split(name))]]

\* "Band{}_{}.vrt".format(order, name)
AllVrtName(order, name) ==
    [pre |-> BandText \o zfill(order) \o Underscore, tail |-> name]

RECURSIVE LexLess(_, _)
\* a < b for two strings given as character codes
LexLess(a, b) ==
    IF Len(b) = 0 THEN FALSE
    ELSE IF Len(a) = 0 THEN TRUE
    ELSE IF a[1] # b[1] THEN a[1] < b[1]
    ELSE LexLess(Tail(a), Tail(b))

RECURSIVE sorted(_)
\* sorted(vrt_list): the file names of a set in ascending string order
sorted(S) ==
    IF S = {} THEN <<>>
    ELSE LET m == CHOOSE x \in S : \A y \in S : ~LexLess(y.pre, x.pre)
         IN  <<m>> \o sorted(S \ {m})

\* os.path.dirname(os.path.realpath(__file__))
DIRECTORY == <<"bin">>
TifNames == {"first.tif", "second.tif"}

\* glob.glob(os.path.join(directory, '*.{}'.format(extension))): the matching
\* files, nothing for a missing directory. The order of the list is the file
\* system's.
list_files(directory, extension) ==
    IF directory = DIRECTORY
    THEN IF extension = "tif" THEN directoryTifs ELSE {}
    ELSE IF directory \in DOMAIN dirs /\ extension = "vrt"
         THEN DOMAIN dirs[directory]
         ELSE {}

----------------------------------------------------------------------------
(* VRT documents *)

\* The document gdal.BuildVRT writes for one subdataset.
BuildBandVrt(conn) ==
    [dataType |-> DataTypes[SubIndex(conn)],
     src      |-> conn,
     source   |-> <<[tag |-> "SourceBand", text |-> "1"],
                    [tag |-> "NODATA", text |-> "-28672"]>>]

\* A patch that adds the scale and leaves the declared data type as it was.
modify_vrt_keeping_type(doc, scale) ==
    [doc EXCEPT !.source = Append(@, [tag |-> "ScaleRatio", text |-> scale])]

\* modify_vrt: the band's dataType forced to Float32, a ScaleRatio element
\* appended to its ComplexSource.
modify_vrt(doc, scale) ==
    [doc EXCEPT !.dataType = "Float32",
                !.source = Append(@, [tag |-> "ScaleRatio", text |-> scale])]

----------------------------------------------------------------------------
(* Files *)

HdfFile == [kind |-> "hdf", bands |-> <<>>, srs |-> "sinu", meta |-> <<>>]

\* gdal.Open(path) returns a dataset with subdatasets
OpensAsHdf(path) == path \in DOMAIN files /\ files[path].kind = "hdf"

\* The multi-band VRT gdal.BuildVRT(vrt_output, names, separate=True) writes:
\* one band per input file, in the order of the list.
BuildMergedVrt(directory, names) ==
    [kind  |-> "vrt",
     bands |-> [i \in DOMAIN names |->
                   [name |-> names[i], doc |-> dirs[directory][names[i]]]],
     srs   |-> "sinu",
     meta  |-> <<>>]

\* The raster gdal.Warp writes from the merged VRT: its bands resampled, so
\* that the TIFF holds as many bands and refers to no VRT.
WarpedTiff(vrt, reproject) ==
    [kind  |-> "tif",
     bands |-> [i \in DOMAIN vrt.bands |-> "raster"],
     srs   |-> IF reproject THEN "EPSG:4326" ELSE vrt.srs,
     meta  |-> <<>>]

\* A warp that always runs, whatever lies at the output path.
WarpAlways(output_tiff) == TRUE

\* if not os.path.exists(output_tiff)
WarpNeeded(output_tiff) == ~Exists(output_tiff)

\* The band names hdf2tif collects: "{}:{}".format(str(index + 1).zfill(2),
\* subd[0].split(":")[4]) for every subdataset of the file.
BandNames(subdatasets) ==
    [i \in DOMAIN subdatasets |->
        [num |-> zfill(i), name |-> Split(subdatasets[i][1])[5]]]

----------------------------------------------------------------------------
(* Arguments and local variables of one invocation *)

\* The band arguments of the command line, each as its digits.
BandArgs ==
    UNION {[1..n -> {Digits(b) : b \in 1..(NumSub + 1)}] : n \in 0..MaxBands}

NoLoc ==
    [hdf |-> <<>>, overwrite |-> FALSE, bands |-> <<>>,
     listed |-> <<>>, subdatasets |-> <<>>, data_dir |-> <<>>, order |-> 0,
     scale |-> "", vrt_output |-> <<>>, output_tiff |-> <<>>,
     warped |-> FALSE, err |-> ""]

\* if bands:
Explicit(l) == Len(l.bands) > 0

\* bands = [int(str(b)) for b in bands]
IntBands(l) == [i \in DOMAIN l.bands |-> ParseInt(l.bands[i])]

\* The number of turns of convert_to_vrt's loop.
LoopLen(l) == IF Explicit(l) THEN Len(l.bands) ELSE Len(l.subdatasets)

\* The key into subdatasets_dict at turn k of the loop.
BandAt(l, k) == IF Explicit(l) THEN IntBands(l)[k] ELSE k

\* output_name at turn k of the loop.
OutputName(l, k) ==
    IF Explicit(l)
    THEN BandVrtName(k, BandAt(l, k), l.subdatasets[BandAt(l, k)][1])
    ELSE AllVrtName(k, l.subdatasets[k][1])

Goto(p, where) == pc' = [pc EXCEPT ![p] = where]
Raise(p, what) ==
    /\ pc' = [pc EXCEPT ![p] = "aborted"]
    /\ loc' = [loc EXCEPT ![p].err = what]

----------------------------------------------------------------------------
(* hdf2tif, one action per statement that touches the file system *)

\* main -> hdf2tif(hdf, overwrite, bands). reproject is read once, at the warp
\* step, and its value is drawn there.
Call(p) ==
    /\ pc[p] = "idle"
    /\ runs < MaxRuns
    /\ \E overwrite \in BOOLEAN, bands \in BandArgs :
          loc' = [loc EXCEPT ![p] = [NoLoc EXCEPT !.hdf = hdf_file,
                                                  !.overwrite = overwrite,
                                                  !.bands = bands]]
    /\ Goto(p, "overwrite")
    /\ runs' = runs + 1
    /\ UNCHANGED <<hdf_file, unscaled, files, dirs, directoryTifs>>

\* A file list that deletes every .tif found, not the first alone.
FirstOfAll(listed) == {listed[i] : i \in DOMAIN listed}

\* list_files(DIRECTORY, 'tif')[0]: what os.remove is given
FirstOf(listed) == {listed[1]}

\* if overwrite: os.remove(list_files(DIRECTORY, 'tif')[0]), IndexError passed
RemoveOldTiff(p) ==
    /\ pc[p] = "overwrite"
    /\ LET found == list_files(DIRECTORY, "tif")
       IN  IF loc[p].overwrite /\ found # {}
           THEN \E listed \in [1..Cardinality(found) -> found] :
                   /\ \A i, j \in DOMAIN listed : i # j => listed[i] # listed[j]
                   /\ directoryTifs' = directoryTifs \ FirstOf(listed)
                   /\ loc' = [loc EXCEPT ![p].listed = listed]
           ELSE UNCHANGED <<directoryTifs, loc>>
    /\ Goto(p, "open")
    /\ UNCHANGED <<hdf_file, unscaled, files, dirs, runs>>

\* dataset = gdal.Open(hdf); subdatasets = dataset.GetSubDatasets()
OpenHdf(p) ==
    /\ pc[p] = "open"
    /\ IF OpensAsHdf(loc[p].hdf)
       THEN /\ loc' = [loc EXCEPT ![p].subdatasets = GetSubDatasets(loc[p].hdf),
                                  ![p].listed = <<>>]
            /\ Goto(p, "mkdir")
       ELSE Raise(p, "AttributeError")
    /\ UNCHANGED <<hdf_file, unscaled, files, dirs, directoryTifs, runs>>

\* A working directory of the invocation's own, named after the file and
\* the invocation.
create_private_directory(p) ==
    /\ pc[p] = "mkdir"
    /\ LET direc == splitext(loc[p].hdf) \o <<p>>
       IN  /\ dirs' = IF ~Exists(direc) THEN Put(dirs, direc, <<>>) ELSE dirs
           /\ loc' = [loc EXCEPT ![p].data_dir = direc, ![p].order = 1]
    /\ Goto(p, "build")
    /\ UNCHANGED <<hdf_file, unscaled, files, directoryTifs, runs>>

\* data_dir = create_output_directory(hdf)
create_output_directory(p) ==
    /\ pc[p] = "mkdir"
    /\ LET direc == splitext(loc[p].hdf)
       IN  /\ dirs' = IF ~Exists(direc) THEN Put(dirs, direc, <<>>) ELSE dirs
           /\ loc' = [loc EXCEPT ![p].data_dir = direc, ![p].order = 1]
    /\ Goto(p, "build")
    /\ UNCHANGED <<hdf_file, unscaled, files, directoryTifs, runs>>

\* convert_to_vrt: output_name = ...; gdal.BuildVRT(output_name, subdataset)
BuildVrt(p) ==
    /\ pc[p] = "build"
    /\ LET l == loc[p]
           k == l.order
       IN  IF BandAt(l, k) \notin DOMAIN l.subdatasets
           THEN Raise(p, "KeyError") /\ UNCHANGED dirs
           ELSE /\ dirs' = IF l.data_dir \in DOMAIN dirs
                           THEN [dirs EXCEPT ![l.data_dir] =
                                    Put(@, OutputName(l, k),
                                        BuildBandVrt(l.subdatasets[BandAt(l, k)][1]))]
                           ELSE dirs
                /\ Goto(p, "scale")
                /\ UNCHANGED loc
    /\ UNCHANGED <<hdf_file, unscaled, files, directoryTifs, runs>>

\* convert_to_vrt: scale = get_metadata_item(subdataset, 'scale')
GetScale(p) ==
    /\ pc[p] = "scale"
    /\ LET l == loc[p]
           found == get_metadata_item(BandAt(l, l.order), unscaled)
       IN  IF ~OpensAsHdf(l.hdf) THEN Raise(p, "AttributeError")
           ELSE IF found = {} THEN Raise(p, "IndexError")
           ELSE /\ \E scale \in found : loc' = [loc EXCEPT ![p].scale = scale]
                /\ Goto(p, "patch")
    /\ UNCHANGED <<hdf_file, unscaled, files, dirs, directoryTifs, runs>>

\* convert_to_vrt: modify_vrt(output_name, scale), then the next turn
ModifyVrt(p) ==
    /\ pc[p] = "patch"
    /\ LET l == loc[p]
           name == OutputName(l, l.order)
       IN  IF name \notin list_files(l.data_dir, "vrt")
           THEN Raise(p, "IOError") /\ UNCHANGED dirs
           ELSE /\ dirs' = [dirs EXCEPT ![l.data_dir][name] = modify_vrt(@, l.scale)]
                /\ loc' = [loc EXCEPT ![p].order = l.order + 1, ![p].scale = ""]
                /\ Goto(p, IF l.order < LoopLen(l) THEN "build" ELSE "merge")
    /\ UNCHANGED <<hdf_file, unscaled, files, directoryTifs, runs>>

\* vrt_list = list_files(data_dir, 'vrt'); vrt_output = hdf.replace(...);
\* gdal.BuildVRT(vrt_output, sorted(vrt_list), options=vrt_options)
MergeVrt(p) ==
    /\ pc[p] = "merge"
    /\ LET l == loc[p]
           vrt_list == list_files(l.data_dir, "vrt")
           vrt_output == VrtOutput(l.hdf)
       IN  /\ files' = IF vrt_list # {}
                       THEN Put(files, vrt_output,
                                BuildMergedVrt(l.data_dir, sorted(vrt_list)))
                       ELSE files
           /\ loc' = [loc EXCEPT ![p].vrt_output = vrt_output]
    /\ Goto(p, "warp")
    /\ UNCHANGED <<hdf_file, unscaled, dirs, directoryTifs, runs>>

\* output_tiff = vrt_output.replace(...);
\* if not os.path.exists(output_tiff): gdal.Warp(output_tiff, vrt_output, ...)
Warp(p) ==
    /\ pc[p] = "warp"
    /\ LET l == loc[p]
           output_tiff == OutputTiff(l.vrt_output)
       IN  IF WarpNeeded(output_tiff)
           THEN /\ \E reproject \in BOOLEAN :
                      files' = IF l.vrt_output \in DOMAIN files
                               THEN Put(files, output_tiff,
                                        WarpedTiff(files[l.vrt_output], reproject))
                               ELSE files
                /\ loc' = [loc EXCEPT ![p].output_tiff = output_tiff,
                                      ![p].warped = TRUE]
           ELSE /\ UNCHANGED files
                /\ loc' = [loc EXCEPT ![p].output_tiff = output_tiff]
    /\ Goto(p, "metadata")
    /\ UNCHANGED <<hdf_file, unscaled, dirs, directoryTifs, runs>>

\* gdal.Open(output_tiff).SetMetadata(str(metadata))
SetMetadata(p) ==
    /\ pc[p] = "metadata"
    /\ LET l == loc[p]
       IN  IF l.output_tiff \notin DOMAIN files
           THEN Raise(p, "AttributeError") /\ UNCHANGED files
           ELSE /\ files' = [files EXCEPT ![l.output_tiff].meta =
                                BandNames(l.subdatasets)]
                /\ Goto(p, "remove")
                /\ UNCHANGED loc
    /\ UNCHANGED <<hdf_file, unscaled, dirs, directoryTifs, runs>>

\* clear_temp_files: os.remove(vrt_output)
RemoveVrt(p) ==
    /\ pc[p] = "remove"
    /\ LET l == loc[p]
       IN  IF l.vrt_output \notin DOMAIN files
           THEN Raise(p, "OSError") /\ UNCHANGED files
           ELSE /\ files' = Del(files, l.vrt_output)
                /\ Goto(p, "rmtree")
                /\ UNCHANGED loc
    /\ UNCHANGED <<hdf_file, unscaled, dirs, directoryTifs, runs>>

\* clear_temp_files: shutil.rmtree(data_dir); return output_tiff
RemoveTree(p) ==
    /\ pc[p] = "rmtree"
    /\ LET l == loc[p]
       IN  IF l.data_dir \notin DOMAIN dirs
           THEN Raise(p, "OSError") /\ UNCHANGED dirs
           ELSE /\ dirs' = Del(dirs, l.data_dir)
                /\ Goto(p, "done")
                /\ UNCHANGED loc
    /\ UNCHANGED <<hdf_file, unscaled, files, directoryTifs, runs>>

\* The process ends: hdf2tif has returned, or the exception has left main.
Exit(p) ==
    /\ pc[p] \in {"done", "aborted"}
    /\ pc' = [pc EXCEPT ![p] = "idle"]
    /\ loc' = [loc EXCEPT ![p] = NoLoc]
    /\ UNCHANGED <<hdf_file, unscaled, files, dirs, directoryTifs, runs>>

\* The statements of hdf2tif after the call.
Run(p) ==
    \/ RemoveOldTiff(p)
    \/ OpenHdf(p)
    \/ create_output_directory(p)
    \/ BuildVrt(p)
    \/ GetScale(p)
    \/ ModifyVrt(p)
    \/ MergeVrt(p)
    \/ Warp(p)
    \/ SetMetadata(p)
    \/ RemoveVrt(p)
    \/ RemoveTree(p)

----------------------------------------------------------------------------
(* Specifications *)

\* Only the input file beside it, no working directory, nothing running.
Fresh ==
    /\ files = Put(<<>>, hdf_file, HdfFile)
    /\ dirs = <<>>
    /\ pc = [p \in Procs |-> "idle"]
    /\ loc = [p \in Procs |-> NoLoc]
    /\ runs = 0

\* One old .tif lies in the program's own directory.
Init ==
    /\ hdf_file \in HdfNames
    /\ unscaled \in {{}, {NumSub}}
    /\ directoryTifs = {"first.tif"}
    /\ Fresh

\* One invocation at a time, one after the other.
Next == Call("A") \/ Run("A") \/ Exit("A")

Spec == Init /\ [][Next]_vars

\* The same runs with any .tif files in the program's own directory.
InitOverwrite ==
    /\ hdf_file = <<"g", ".hdf">>
    /\ unscaled = {}
    /\ directoryTifs \in SUBSET TifNames
    /\ Fresh

SpecOverwrite == InitOverwrite /\ [][Next]_vars

\* The same command line started twice on the same input file (the same band
\* list, --overwrite at its default), the two interleaved statement by
\* statement, on a file whose subdatasets all carry their scale and with no
\* .tif in the program's own directory.
InitConcurrent ==
    /\ hdf_file \in HdfNames
    /\ unscaled = {}
    /\ directoryTifs = {}
    /\ Fresh

SameCommand(p) ==
    /\ loc'[p].overwrite
    /\ \A q \in Procs \ {p} : pc[q] # "idle" => loc'[p].bands = loc[q].bands

NextConcurrent == \E p \in Procs : (Call(p) /\ SameCommand(p)) \/ Run(p)

SpecConcurrent == InitConcurrent /\ [][NextConcurrent]_vars

----------------------------------------------------------------------------
(* Properties *)

\* The subdataset names a band list asks for, in the order asked: all of them
\* when no list is given.
Requested(l) == [k \in 1..LoopLen(l) |-> l.subdatasets[BandAt(l, k)][1]]

\* The subdatasets the bands of a merged VRT refer to.
MergedSources(vrt) == [k \in DOMAIN vrt.bands |-> vrt.bands[k].doc.src]

\* The labels "01:<name1>", "02:<name2>", ... of the file's subdatasets.
AllLabels == [i \in 1..NumSub |-> [num |-> zfill(i), name |-> <<FieldNames[i]>>]]

\* C1: after every run that returns, the working directory and the merged
\* VRT no longer exist and the output TIFF at the returned path exists.
C1_OnlyTiffRemains ==
    \A p \in Procs : pc[p] = "done" =>
        /\ ~Exists(loc[p].data_dir)
        /\ ~Exists(loc[p].vrt_output)
        /\ loc[p].output_tiff \in DOMAIN files

\* C2: a run that aborts on a subdataset without scale metadata has produced
\* no output TIFF and leaves no working directory holding VRT files.
C2_AbortLeavesNoVrt ==
    \A p \in Procs : pc[p] = "aborted" /\ loc[p].err = "IndexError" =>
        /\ ~loc[p].warped
        /\ loc[p].data_dir \in DOMAIN dirs => DOMAIN dirs[loc[p].data_dir] = {}

\* C3: with an explicit band list the merged VRT has exactly one band per
\* requested index, each referring to the requested subdataset, whatever the
\* working directory held before the run.
C3_OnlyRequestedBands ==
    \A p \in Procs : pc[p] = "warp" /\ Explicit(loc[p]) =>
        /\ loc[p].vrt_output \in DOMAIN files
        /\ MergedSources(files[loc[p].vrt_output]) = Requested(loc[p])

\* C4: with no band list and every subdataset carrying its scale, the merged
\* VRT has exactly NumSub bands and the TIFF's metadata list is the NumSub
\* labels "0i:<name i>" in the library's order.
C4_AllBandsAndLabels ==
    \A p \in Procs : ~Explicit(loc[p]) /\ unscaled = {} =>
        /\ pc[p] = "warp" =>
              /\ loc[p].vrt_output \in DOMAIN files
              /\ Len(files[loc[p].vrt_output].bands) = NumSub
        /\ pc[p] = "remove" => files[loc[p].output_tiff].meta = AllLabels

C6_EveryOldTiffDeleted ==
    [][\A p \in Procs : pc[p] = "overwrite" /\ pc'[p] # "overwrite" =>
          /\ pc'[p] = "open"
          /\ loc[p].overwrite => directoryTifs' = {}
          /\ ~loc[p].overwrite => directoryTifs' = directoryTifs
      ]_vars

\* C6 as amended: with overwrite exactly one .tif of the program's
\* directory, the first the search returns, is deleted before the HDF is
\* opened, and the others stay; the run goes on when there is none, and
\* without overwrite none is deleted.
C6_FirstOldTiffDeleted ==
    [][\A p \in Procs : pc[p] = "overwrite" /\ pc'[p] # "overwrite" =>
          /\ pc'[p] = "open"
          /\ loc[p].overwrite /\ directoryTifs # {} =>
                /\ loc'[p].listed[1] \in directoryTifs
                /\ directoryTifs' = directoryTifs \ {loc'[p].listed[1]}
          /\ loc[p].overwrite /\ directoryTifs = {} => directoryTifs' = {}
          /\ ~loc[p].overwrite => directoryTifs' = directoryTifs
      ]_vars

\* C6's case: the search found two .tif files, one was deleted, one is left,
\* and the run is about to open the HDF.
C6_Witness ==
    /\ pc["A"] = "open"
    /\ loc["A"].overwrite
    /\ Len(loc["A"].listed) = 2
    /\ Cardinality(directoryTifs) = 1

\* C7: every per-band VRT a run has generated and patched declares Float32,
\* whatever type gdal.BuildVRT declared, and its ComplexSource holds what
\* BuildVRT wrote followed by exactly one ScaleRatio whose text is a scale
\* value of its subdataset; nothing else of the document differs.
C7_PatchedOnce ==
    \A p \in Procs : pc[p] \in {"build", "scale", "patch", "merge"} =>
        \A k \in 1..(loc[p].order - 1) :
            LET l    == loc[p]
                conn == l.subdatasets[BandAt(l, k)][1]
                doc  == dirs[l.data_dir][OutputName(l, k)]
            IN  /\ OutputName(l, k) \in DOMAIN dirs[l.data_dir]
                /\ doc.dataType = "Float32"
                /\ doc.src = conn
                /\ \E s \in get_metadata_item(BandAt(l, k), unscaled) :
                      doc.source = BuildBandVrt(conn).source
                                     \o <<[tag |-> "ScaleRatio", text |-> s]>>

\* C7's case: a run with a list of two bands has patched both of its VRTs,
\* neither of which BuildVRT declared as Float32.
C7_Witness ==
    /\ pc["A"] = "merge"
    /\ Len(loc["A"].bands) = 2
    /\ \A k \in 1..2 :
          BuildBandVrt(Requested(loc["A"])[k]).dataType # "Float32"

\* C8: for every band request the bands of the merged VRT follow the order
\* requested, and the k-th label of the TIFF's metadata list names the
\* subdataset of the k-th band.
C8_LabelsFollowBands ==
    \A p \in Procs : pc[p] = "remove" =>
        LET merged == files[loc[p].vrt_output]
            labels == files[loc[p].output_tiff].meta
        IN  /\ MergedSources(merged) = Requested(loc[p])
            /\ Len(labels) = Len(merged.bands)
            /\ \A k \in DOMAIN labels :
                  labels[k].name = Split(merged.bands[k].doc.src)[5]

\* C9: the input file is never written or deleted, and the merged VRT path
\* and the output path differ from the input path and share its stem.
C9_InputOnlyRead ==
    /\ hdf_file \in DOMAIN files
    /\ files[hdf_file] = HdfFile
    /\ \A p \in Procs :
          /\ loc[p].vrt_output # <<>> =>
                /\ loc[p].vrt_output # loc[p].hdf
                /\ splitext(loc[p].vrt_output) = splitext(loc[p].hdf)
          /\ loc[p].output_tiff # <<>> =>
                /\ loc[p].output_tiff # loc[p].hdf
                /\ splitext(loc[p].output_tiff) = splitext(loc[p].hdf)

\* An invocation that has begun its cleanup or ended it.
Cleaning(q) ==
    \/ pc[q] \in {"rmtree", "done"}
    \/ pc[q] = "aborted" /\ loc[q].err = "OSError"

====
